---- MODULE Spec2Model ----
(***************************************************************************)
(* Model of the DCF77 faker firmware: the time-code codec (dcf77.rs), the  *)
(* modulation scheduler (the RTC interrupt handler of main.rs), the        *)
(* foreground (main and panicked of main.rs), the I2C controller driver    *)
(* (i2c_controller.rs) and the byte output of the display driver           *)
(* (i2c_display.rs).                                                       *)
(*                                                                         *)
(* A u64 frame is represented by the set of its set bit positions, since   *)
(* 2^58 does not fit the model checker's integers: `value |= 1 << k` is    *)
(* value \cup {k}, `value & 1 != 0` is 0 \in value and `value >>= 1` drops *)
(* bit 0 and moves every other bit one position down.                      *)
(***************************************************************************)
EXTENDS Integers, Sequences, FiniteSets, TLC

VARIABLES
    tc,             \* codec: the Dcf77Data value the codec functions are applied to
    enc,            \* codec: result of the last to_bits call on tc (valid = FALSE: none yet)
    past,           \* codec: hour and minute digits tc had before each of the last increments
    COUNTER,        \* RTC handler: static mut COUNTER (sub-tick counter)
    MINUTE,         \* RTC handler: static mut MINUTE (frame being shifted out)
    SECOND,         \* static SECOND
    DCF77_DATA,     \* static DCF77_DATA
    UPDATE_TIME,    \* static UPDATE_TIME
    cc0,            \* TCC0 compare channel 0 (duty cycle)
    ticks,          \* scheduler: number of handler invocations so far
    hist,           \* scheduler: the invocations among the last HistLen that passed the sub-tick gate
    minutes,        \* scheduler: number of re-encodes performed so far
    i2c_pc,         \* I2C driver: where send/receive stands ("idle": not called)
    xfer,           \* I2C driver: arguments and locals of the running send/receive
    bus,            \* SERCOM I2CM registers: INTFLAG.MB, SYNCBUSY.SYSOP, STATUS flags, DATA
    busLog,         \* register accesses made by the running send/receive, in order
    result,         \* what the last send/receive returned
    main_pc,        \* main / panicked: where the foreground stands
    main_second,    \* main: let second
    main_data,      \* main: let data
    unread,         \* main: the fields of DCF77_DATA the running copy has not read yet
    time_info,      \* main: let time_info, as composed for the display
    led,            \* PA27 output level (indicator LED)
    done,           \* main: the initialisation steps performed so far, in order
    per,            \* TCC0 PER (period)
    pwmLog,         \* which context has written which TCC0 register so far
    pending,        \* second boundaries since the foreground last cleared UPDATE_TIME
    cycle,          \* boundaries taken by the last clear and refreshes made since
    fgTicks,        \* handler invocations since the foreground left its wait loop (0 after the reads)
    sinceRead,      \* second boundaries since the foreground read SECOND (0 after the reads)
    prev,           \* SECOND and DCF77_DATA as they were before the latest boundary
    rtc_pc,         \* RTC handler: where it stands in set_duty_cycle ("idle": not running)
    syncbusy,       \* TCC0 SYNCBUSY.CC0
    busy,           \* set_duty_cycle: the SYNCBUSY.CC0 bit last read
    disp            \* display driver: arguments and locals of the running transmit_byte

mainVars == <<main_pc, main_second, main_data, unread, time_info, led, done, per, pwmLog,
             pending, cycle, fgTicks, sinceRead, prev>>
tccVars == <<rtc_pc, syncbusy, busy>>
displayVars == <<disp>>
progVars == <<mainVars, tccVars, displayVars>>

vars == <<tc, enc, past, COUNTER, MINUTE, SECOND, DCF77_DATA, UPDATE_TIME, cc0, ticks, hist,
         minutes,
         i2c_pc, xfer, bus, busLog, result, mainVars, tccVars, displayVars>>

codecVars == <<tc, enc, past>>
schedVars == <<COUNTER, MINUTE, SECOND, DCF77_DATA, UPDATE_TIME, cc0, ticks, hist, minutes>>
i2cVars == <<i2c_pc, xfer, bus, busLog, result>>

----------------------------------------------------------------------------
(* Bounds *)

\* number of minute boundaries the scheduler is run through
MaxMinutes == 3

\* longest data sequence handed to send
MaxData == 2

\* largest number of bytes a receive handler accepts before it returns false
MaxRead == 2

----------------------------------------------------------------------------
(* dcf77.rs *)

FREQUENCY_HZ == 77500

\* x & m != 0 for a mask m with a single bit set
BitSet(x, m) == (x \div m) % 2 = 1

new_flip_cest ==
    [ civil_warning |-> 0, abnormal_operation |-> FALSE, summer_announcement |-> FALSE,
      cest |-> FALSE, cet |-> TRUE, leap_second_announcement |-> FALSE,
      minute_ones |-> 0, minute_tens |-> 4, hour_tens |-> 1, hour_ones |-> 0,
      day_of_month_tens |-> 1, day_of_month_ones |-> 0, day_of_week |-> 2,
      month_ones |-> 4, month_ten |-> FALSE,
      year_in_century_ones |-> 0, year_in_century_tens |-> 9 ]

\* Dcf77Data::new
new ==
    [ civil_warning |-> 0, abnormal_operation |-> FALSE, summer_announcement |-> FALSE,
      cest |-> TRUE, cet |-> FALSE, leap_second_announcement |-> FALSE,
      minute_ones |-> 0, minute_tens |-> 4, hour_tens |-> 1, hour_ones |-> 0,
      day_of_month_tens |-> 1, day_of_month_ones |-> 0, day_of_week |-> 2,
      month_ones |-> 4, month_ten |-> FALSE,
      year_in_century_ones |-> 0, year_in_century_tens |-> 9 ]

\* mutants of increment_minute
increment_minute_tens9(d) ==
    LET a == [d EXCEPT !.minute_ones = d.minute_ones + 1] IN
    IF a.minute_ones < 10 THEN a ELSE
    LET b == [a EXCEPT !.minute_ones = 0, !.minute_tens = a.minute_tens + 1] IN
    IF b.minute_tens < 9 THEN b ELSE
    LET c == [b EXCEPT !.minute_tens = 0, !.hour_ones = b.hour_ones + 1] IN
    IF c.hour_tens = 2 /\ c.hour_ones >= 4
    THEN [c EXCEPT !.hour_ones = 0, !.hour_tens = 0]
    ELSE IF c.hour_ones < 10 THEN c
    ELSE [c EXCEPT !.hour_ones = 0, !.hour_tens = c.hour_tens + 1]

increment_minute_wrap25(d) ==
    LET a == [d EXCEPT !.minute_ones = d.minute_ones + 1] IN
    IF a.minute_ones < 10 THEN a ELSE
    LET b == [a EXCEPT !.minute_ones = 0, !.minute_tens = a.minute_tens + 1] IN
    IF b.minute_tens < 6 THEN b ELSE
    LET c == [b EXCEPT !.minute_tens = 0, !.hour_ones = b.hour_ones + 1] IN
    IF c.hour_tens = 2 /\ c.hour_ones >= 5
    THEN [c EXCEPT !.hour_ones = 0, !.hour_tens = 0]
    ELSE IF c.hour_ones < 10 THEN c
    ELSE [c EXCEPT !.hour_ones = 0, !.hour_tens = c.hour_tens + 1]

increment_minute_date(d) ==
    LET a == [d EXCEPT !.minute_ones = d.minute_ones + 1] IN
    IF a.minute_ones < 10 THEN a ELSE
    LET b == [a EXCEPT !.minute_ones = 0, !.minute_tens = a.minute_tens + 1] IN
    IF b.minute_tens < 6 THEN b ELSE
    LET c == [b EXCEPT !.minute_tens = 0, !.hour_ones = b.hour_ones + 1] IN
    IF c.hour_tens = 2 /\ c.hour_ones >= 4
    THEN [c EXCEPT !.hour_ones = 0, !.hour_tens = 0,
                   !.day_of_month_ones = (c.day_of_month_ones + 1) % 10,
                   !.day_of_week = (c.day_of_week % 7) + 1]
    ELSE IF c.hour_ones < 10 THEN c
    ELSE [c EXCEPT !.hour_ones = 0, !.hour_tens = c.hour_tens + 1]

\* Dcf77Data::increment_minute (the u8 additions stay far below 256)
increment_minute(d) ==
    LET a == [d EXCEPT !.minute_ones = d.minute_ones + 1] IN
    IF a.minute_ones < 10 THEN a ELSE
    LET b == [a EXCEPT !.minute_ones = 0, !.minute_tens = a.minute_tens + 1] IN
    IF b.minute_tens < 6 THEN b ELSE
    LET c == [b EXCEPT !.minute_tens = 0, !.hour_ones = b.hour_ones + 1] IN
    IF c.hour_tens = 2 /\ c.hour_ones >= 4
    THEN [c EXCEPT !.hour_ones = 0, !.hour_tens = 0]
    ELSE IF c.hour_ones < 10 THEN c
    ELSE [c EXCEPT !.hour_ones = 0, !.hour_tens = c.hour_tens + 1]

\* The `if self.<f> & <m> != 0 { value |= 1 << <b>; parity = !parity; }` statements
\* of to_bits, in source order, one entry per statement.
MinuteTests ==
    << [f |-> "minute_ones", m |-> 1, b |-> 21], [f |-> "minute_ones", m |-> 2, b |-> 22],
       [f |-> "minute_ones", m |-> 4, b |-> 23], [f |-> "minute_ones", m |-> 8, b |-> 24],
       [f |-> "minute_tens", m |-> 1, b |-> 25], [f |-> "minute_tens", m |-> 2, b |-> 26],
       [f |-> "minute_tens", m |-> 4, b |-> 27] >>

HourTests ==
    << [f |-> "hour_ones", m |-> 1, b |-> 29], [f |-> "hour_ones", m |-> 2, b |-> 30],
       [f |-> "hour_ones", m |-> 4, b |-> 31], [f |-> "hour_ones", m |-> 8, b |-> 32],
       [f |-> "hour_tens", m |-> 1, b |-> 33], [f |-> "hour_tens", m |-> 2, b |-> 34] >>

\* month_ten is a bool: the statement tests the field itself (m = 0 marks it)
DateTests ==
    << [f |-> "day_of_month_ones", m |-> 1, b |-> 36], [f |-> "day_of_month_ones", m |-> 2, b |-> 37],
       [f |-> "day_of_month_ones", m |-> 4, b |-> 38], [f |-> "day_of_month_ones", m |-> 8, b |-> 39],
       [f |-> "day_of_month_tens", m |-> 1, b |-> 40], [f |-> "day_of_month_tens", m |-> 2, b |-> 41],
       [f |-> "day_of_week", m |-> 1, b |-> 42], [f |-> "day_of_week", m |-> 2, b |-> 43],
       [f |-> "day_of_week", m |-> 4, b |-> 44],
       [f |-> "month_ones", m |-> 1, b |-> 45], [f |-> "month_ones", m |-> 2, b |-> 46],
       [f |-> "month_ones", m |-> 4, b |-> 47], [f |-> "month_ones", m |-> 8, b |-> 48],
       [f |-> "month_ten", m |-> 0, b |-> 49],
       [f |-> "year_in_century_ones", m |-> 1, b |-> 50], [f |-> "year_in_century_ones", m |-> 2, b |-> 51],
       [f |-> "year_in_century_ones", m |-> 4, b |-> 52], [f |-> "year_in_century_ones", m |-> 8, b |-> 53],
       [f |-> "year_in_century_tens", m |-> 1, b |-> 54], [f |-> "year_in_century_tens", m |-> 2, b |-> 55],
       [f |-> "year_in_century_tens", m |-> 4, b |-> 56], [f |-> "year_in_century_tens", m |-> 8, b |-> 57] >>

\* the condition of one such statement
TestHolds(d, e) == IF e.m = 0 THEN d[e.f] ELSE BitSet(d[e.f], e.m)

\* the bits the statements of a group set in value
GroupBits(d, tests) == { tests[i].b : i \in { j \in DOMAIN tests : TestHolds(d, tests[j]) } }

GroupParity_skip_last(d, tests) ==
    Cardinality({ j \in DOMAIN tests : j < Len(tests) /\ TestHolds(d, tests[j]) }) % 2 = 1

\* the value of the group's parity flag after its statements: it starts false and is
\* negated once per statement whose condition holds
GroupParity(d, tests) ==
    Cardinality({ j \in DOMAIN tests : TestHolds(d, tests[j]) }) % 2 = 1

\* bits 1 through 19 of to_bits: civil warning and the five status flags
StatusBits(d) ==
    { k + 1 : k \in { j \in 0..13 : (d.civil_warning \div (2 ^ j)) % 2 = 1 } }
    \cup (IF d.abnormal_operation THEN {15} ELSE {})
    \cup (IF d.summer_announcement THEN {16} ELSE {})
    \cup (IF d.cest THEN {17} ELSE {})
    \cup (IF d.cet THEN {18} ELSE {})
    \cup (IF d.leap_second_announcement THEN {19} ELSE {})

to_bits_no_start(d) ==
    StatusBits(d)
    \cup GroupBits(d, MinuteTests) \cup (IF GroupParity(d, MinuteTests) THEN {28} ELSE {})
    \cup GroupBits(d, HourTests) \cup (IF GroupParity(d, HourTests) THEN {35} ELSE {})
    \cup GroupBits(d, DateTests) \cup (IF GroupParity(d, DateTests) THEN {58} ELSE {})

to_bits_hour_clash(d) ==
    StatusBits(d)
    \cup {20}
    \cup GroupBits(d, MinuteTests) \cup (IF GroupParity(d, MinuteTests) THEN {28} ELSE {})
    \cup { IF b = 32 THEN 31 ELSE b : b \in GroupBits(d, HourTests) }
    \cup (IF GroupParity(d, HourTests) THEN {35} ELSE {})
    \cup GroupBits(d, DateTests) \cup (IF GroupParity(d, DateTests) THEN {58} ELSE {})

\* Dcf77Data::to_bits
to_bits(d) ==
    StatusBits(d)
    \cup {20}
    \cup GroupBits(d, MinuteTests) \cup (IF GroupParity(d, MinuteTests) THEN {28} ELSE {})
    \cup GroupBits(d, HourTests) \cup (IF GroupParity(d, HourTests) THEN {35} ELSE {})
    \cup GroupBits(d, DateTests) \cup (IF GroupParity(d, DateTests) THEN {58} ELSE {})

\* Reading the fields of Dcf77Data back from the bit positions documented on the
\* struct's fields (weights 1, 2, 4, 8 in ascending bit order).
Field(v, lo, hi) ==
    LET RECURSIVE Sum(_)
        Sum(k) == IF k > hi THEN 0
                  ELSE (IF k \in v THEN 2 ^ (k - lo) ELSE 0) + Sum(k + 1)
    IN Sum(lo)

decode(v) ==
    [ civil_warning |-> Field(v, 1, 14),
      abnormal_operation |-> 15 \in v, summer_announcement |-> 16 \in v,
      cest |-> 17 \in v, cet |-> 18 \in v, leap_second_announcement |-> 19 \in v,
      minute_ones |-> Field(v, 21, 24), minute_tens |-> Field(v, 25, 27),
      hour_ones |-> Field(v, 29, 32), hour_tens |-> Field(v, 33, 34),
      day_of_month_ones |-> Field(v, 36, 39), day_of_month_tens |-> Field(v, 40, 41),
      day_of_week |-> Field(v, 42, 44),
      month_ones |-> Field(v, 45, 48), month_ten |-> 49 \in v,
      year_in_century_ones |-> Field(v, 50, 53), year_in_century_tens |-> Field(v, 54, 57) ]

----------------------------------------------------------------------------
(* Codec harness: the codec functions applied to the values the firmware    *)
(* can hold, starting from Dcf77Data::new().                                *)

MinutesPerDay == 24 * 60

HourMinute(d) == <<d.hour_tens, d.hour_ones, d.minute_tens, d.minute_ones>>

CodecIncrement ==
    /\ tc' = increment_minute(tc)
    /\ enc' = [valid |-> FALSE, bits |-> {}]
    /\ past' = IF Len(past) < MinutesPerDay
               THEN Append(past, HourMinute(tc))
               ELSE Append(Tail(past), HourMinute(tc))
    /\ UNCHANGED schedVars
    /\ UNCHANGED i2cVars
    /\ UNCHANGED progVars

CodecEncode ==
    /\ ~enc.valid
    /\ enc' = [valid |-> TRUE, bits |-> to_bits(tc)]
    /\ UNCHANGED <<tc, past>>
    /\ UNCHANGED schedVars
    /\ UNCHANGED i2cVars
    /\ UNCHANGED progVars

NextCodec == CodecIncrement \/ CodecEncode

----------------------------------------------------------------------------
(* init.rs, main.rs: the modulation scheduler (interrupt handler RTC) *)

CORE_CLOCK_SPEED_HZ == 31000000

\* the handler is "fired 32x per second"
TicksPerSecond == 32

\* let period = init::CORE_CLOCK_SPEED_HZ / dcf77::FREQUENCY_HZ
period == CORE_CLOCK_SPEED_HZ \div FREQUENCY_HZ

NextCounter_16(c) == (c + 1) % 16

NextCounter_every(c) == 0

\* *COUNTER = (*COUNTER + 1) % 32
NextCounter(c) == (c + 1) % 32

NextSecond_store60(s) == IF s = 60 THEN 0 ELSE s + 1

NextSecond_61(s) == IF s + 1 = 61 THEN 0 ELSE s + 1

\* let mut second = SECOND.get() + 1; if second == 60 { second = 0; }
NextSecond(s) == IF s + 1 = 60 THEN 0 ELSE s + 1

DutyFor_swapped(long_duty_cycle) == IF long_duty_cycle THEN period \div 44 ELSE period \div 2

\* the argument of set_duty_cycle in the "regular behavior" branch
DutyFor(long_duty_cycle) == IF long_duty_cycle THEN period \div 2 ELSE period \div 44

ShiftRight_stuck(v) == v \ {0}

\* *MINUTE >>= 1
ShiftRight(v) == { b - 1 : b \in v \ {0} }

\* Length of the recorded history: the longest window a property looks at.
HistLen == TicksPerSecond * 60

\* hist keeps, oldest first, the number (tick), the path taken (kind) and the duty
\* cycle writes of every invocation among the last HistLen that did not return at
\* the sub-tick gate
Record(events) ==
    /\ ticks' = ticks + 1
    /\ hist' = SelectSeq(hist \o [i \in DOMAIN events |->
                                    [tick |-> ticks + 1, kind |-> events[i].kind,
                                     writes |-> events[i].writes]],
                         LAMBDA e : e.tick > ticks + 1 - HistLen)

\* an invocation that returns at `if *COUNTER != 0 { return; }`
RtcIdle ==
    /\ NextCounter(COUNTER) # 0
    /\ COUNTER' = NextCounter(COUNTER)
    /\ Record(<<>>)
    /\ UNCHANGED <<MINUTE, SECOND, DCF77_DATA, UPDATE_TIME, cc0, minutes>>
    /\ UNCHANGED codecVars
    /\ UNCHANGED i2cVars

RtcReencode_stale ==
    /\ NextCounter(COUNTER) = 0
    /\ NextSecond(SECOND) = 59
    /\ minutes < MaxMinutes
    /\ COUNTER' = NextCounter(COUNTER)
    /\ SECOND' = NextSecond(SECOND)
    /\ cc0' = 0
    /\ DCF77_DATA' = increment_minute(DCF77_DATA)
    /\ MINUTE' = to_bits(DCF77_DATA)
    /\ UPDATE_TIME' = TRUE
    /\ minutes' = minutes + 1
    /\ Record(<< [kind |-> "reencode", writes |-> <<0>>] >>)
    /\ UNCHANGED codecVars
    /\ UNCHANGED i2cVars

RtcReencode_loud ==
    /\ NextCounter(COUNTER) = 0
    /\ NextSecond(SECOND) = 59
    /\ minutes < MaxMinutes
    /\ COUNTER' = NextCounter(COUNTER)
    /\ SECOND' = NextSecond(SECOND)
    /\ cc0' = cc0
    /\ DCF77_DATA' = increment_minute(DCF77_DATA)
    /\ MINUTE' = to_bits(DCF77_DATA')
    /\ UPDATE_TIME' = TRUE
    /\ minutes' = minutes + 1
    /\ Record(<< [kind |-> "reencode", writes |-> <<>>] >>)
    /\ UNCHANGED codecVars
    /\ UNCHANGED i2cVars

\* an invocation that reaches second 59: silence the carrier, compute the next minute
RtcReencode ==
    /\ NextCounter(COUNTER) = 0
    /\ NextSecond(SECOND) = 59
    /\ minutes < MaxMinutes
    /\ COUNTER' = NextCounter(COUNTER)
    /\ SECOND' = NextSecond(SECOND)
    /\ cc0' = 0
    /\ DCF77_DATA' = increment_minute(DCF77_DATA)
    /\ MINUTE' = to_bits(DCF77_DATA')
    /\ UPDATE_TIME' = TRUE
    /\ minutes' = minutes + 1
    /\ Record(<< [kind |-> "reencode", writes |-> <<0>>] >>)
    /\ UNCHANGED codecVars
    /\ UNCHANGED i2cVars

RtcShift_late ==
    /\ NextCounter(COUNTER) = 0
    /\ NextSecond(SECOND) # 59
    /\ COUNTER' = NextCounter(COUNTER)
    /\ SECOND' = NextSecond(SECOND)
    /\ LET long_duty_cycle == 0 \in ShiftRight(MINUTE) IN
       /\ MINUTE' = ShiftRight(MINUTE)
       /\ cc0' = DutyFor(long_duty_cycle)
       /\ Record(<< [kind |-> "shift", writes |-> <<DutyFor(long_duty_cycle)>>] >>)
    /\ UPDATE_TIME' = TRUE
    /\ UNCHANGED <<DCF77_DATA, minutes>>
    /\ UNCHANGED codecVars
    /\ UNCHANGED i2cVars

\* an invocation that reaches any other second: shift one bit out of the frame
RtcShift ==
    /\ NextCounter(COUNTER) = 0
    /\ NextSecond(SECOND) # 59
    /\ COUNTER' = NextCounter(COUNTER)
    /\ SECOND' = NextSecond(SECOND)
    /\ LET long_duty_cycle == 0 \in MINUTE IN
       /\ MINUTE' = ShiftRight(MINUTE)
       /\ cc0' = DutyFor(long_duty_cycle)
       /\ Record(<< [kind |-> "shift", writes |-> <<DutyFor(long_duty_cycle)>>] >>)
    /\ UPDATE_TIME' = TRUE
    /\ UNCHANGED <<DCF77_DATA, minutes>>
    /\ UNCHANGED codecVars
    /\ UNCHANGED i2cVars

\* fn RTC(): one invocation of the handler takes exactly one of its three paths
RTC == RtcIdle \/ RtcReencode \/ RtcShift

----------------------------------------------------------------------------
(* main.rs: main and panicked (the foreground), with the handler interrupting *)

\* how far the handler is let run: it is followed for MainSeconds seconds
MainSeconds == 61

\* how far the handler is let run where only the start of main is looked at
BootSeconds == 3

\* how many second boundaries the foreground may leave unconsumed
MaxPending == 2

\* how many handler invocations fit between the end of the wait loop and the end of
\* the copy of DCF77_DATA: the code in between is straight-line, the invocations
\* are CORE_CLOCK_SPEED_HZ / 32 core cycles apart
MaxReadTicks == 2

\* the calls of main between the two take() calls and the PWM set-up, in order
SetupSteps == <<"clock", "tick", "pins", "i2c", "display">>

\* the fields of Dcf77Data
FieldNames == DOMAIN new

\* the fields increment_minute writes
TimeFields == {"minute_ones", "minute_tens", "hour_ones", "hour_tens"}

LoopPcs == {"wait", "clear", "read_second", "read_data", "read_rest", "render", "send"}
FastPcs == {"clear", "read_second", "read_data", "read_rest", "render"}
PanicPcs == {"panic_setup", "panic_high", "panic_low"}

\* time_info as filled in by main, as digit values: dd.mm.yy hh:mm:ss
RenderTime(second, data) ==
    << data.day_of_month_tens, data.day_of_month_ones,
       IF data.month_ten THEN 1 ELSE 0, data.month_ones,
       data.year_in_century_tens, data.year_in_century_ones,
       data.hour_tens, data.hour_ones,
       data.minute_tens, data.minute_ones,
       second \div 10, second % 10 >>

MainFrame ==
    /\ UNCHANGED codecVars
    /\ UNCHANGED i2cVars
    /\ UNCHANGED tccVars
    /\ UNCHANGED displayVars
    /\ UNCHANGED <<COUNTER, MINUTE, SECOND, DCF77_DATA, ticks, hist, minutes>>

\* CorePeripherals::take().expect(..)
MainTakeCore ==
    /\ main_pc = "start"
    /\ \E taken \in BOOLEAN :
          main_pc' = IF taken THEN "take_peripherals" ELSE "panic_setup"
    /\ UNCHANGED <<main_second, main_data, unread, time_info, led, done, per, pwmLog,
                   pending, cycle, fgTicks, sinceRead, prev>>
    /\ UNCHANGED <<UPDATE_TIME, cc0>>
    /\ MainFrame

\* Peripherals::take().expect(..)
MainTakePeripherals ==
    /\ main_pc = "take_peripherals"
    /\ \E taken \in BOOLEAN :
          main_pc' = IF taken THEN "setup" ELSE "panic_setup"
    /\ UNCHANGED <<main_second, main_data, unread, time_info, led, done, per, pwmLog,
                   pending, cycle, fgTicks, sinceRead, prev>>
    /\ UNCHANGED <<UPDATE_TIME, cc0>>
    /\ MainFrame

\* initialize_microcontroller, enable_tick_clock, the pins, the I2C controller,
\* the display
MainSetup ==
    /\ main_pc = "setup"
    /\ Len(done) < Len(SetupSteps)
    /\ done' = Append(done, SetupSteps[Len(done) + 1])
    /\ UNCHANGED <<main_pc, main_second, main_data, unread, time_info, led, per, pwmLog,
                   pending, cycle, fgTicks, sinceRead, prev>>
    /\ UNCHANGED <<UPDATE_TIME, cc0>>
    /\ MainFrame

\* setup_pwm, set_period_and_duty_cycle(period, 0), start_generation
MainSetupPwm ==
    /\ main_pc = "setup"
    /\ Len(done) = Len(SetupSteps)
    /\ per' = CORE_CLOCK_SPEED_HZ \div FREQUENCY_HZ
    /\ cc0' = 0
    /\ pwmLog' = pwmLog \cup {[reg |-> "PER", ctx |-> "main"], [reg |-> "CC0", ctx |-> "main"]}
    /\ done' = Append(done, "pwm")
    /\ main_pc' = "wait"
    /\ UNCHANGED <<main_second, main_data, unread, time_info, led,
                   pending, cycle, fgTicks, sinceRead, prev>>
    /\ UNCHANGED UPDATE_TIME
    /\ MainFrame

\* while !UPDATE_TIME.get() {}
MainWait ==
    /\ main_pc = "wait"
    /\ UPDATE_TIME
    /\ main_pc' = "clear"
    /\ fgTicks' = 0
    /\ UNCHANGED <<main_second, main_data, unread, time_info, led, done, per, pwmLog,
                   pending, cycle, sinceRead, prev>>
    /\ UNCHANGED <<UPDATE_TIME, cc0>>
    /\ MainFrame

MainClear_reset ==
    /\ main_pc = "clear"
    /\ UPDATE_TIME' = FALSE
    /\ SECOND' = 0
    /\ pending' = 0
    /\ cycle' = [k |-> pending, refreshes |-> 0]
    /\ main_pc' = "read_second"
    /\ UNCHANGED <<main_second, main_data, unread, time_info, led, done, per, pwmLog,
                   fgTicks, sinceRead, prev>>
    /\ UNCHANGED <<cc0, COUNTER, MINUTE, DCF77_DATA, ticks, hist, minutes>>
    /\ UNCHANGED codecVars
    /\ UNCHANGED i2cVars
    /\ UNCHANGED tccVars
    /\ UNCHANGED displayVars

\* UPDATE_TIME.set(false)
MainClear ==
    /\ main_pc = "clear"
    /\ UPDATE_TIME' = FALSE
    /\ pending' = 0
    /\ cycle' = [k |-> pending, refreshes |-> 0]
    /\ main_pc' = "read_second"
    /\ UNCHANGED <<main_second, main_data, unread, time_info, led, done, per, pwmLog,
                   fgTicks, sinceRead, prev>>
    /\ UNCHANGED cc0
    /\ MainFrame

MainReadSecond_early ==
    /\ main_pc = "read_second"
    /\ main_second' = prev.second
    /\ sinceRead' = 0
    /\ main_pc' = "read_data"
    /\ UNCHANGED <<main_data, unread, time_info, led, done, per, pwmLog,
                   pending, cycle, fgTicks, prev>>
    /\ UNCHANGED <<UPDATE_TIME, cc0>>
    /\ MainFrame

\* let second = SECOND.get()
MainReadSecond ==
    /\ main_pc = "read_second"
    /\ main_second' = SECOND
    /\ sinceRead' = 0
    /\ main_pc' = "read_data"
    /\ UNCHANGED <<main_data, unread, time_info, led, done, per, pwmLog,
                   pending, cycle, fgTicks, prev>>
    /\ UNCHANGED <<UPDATE_TIME, cc0>>
    /\ MainFrame

\* let data = DCF77_DATA.get(): a volatile read of a structure of 17 bytes, which
\* the handler can interrupt; the fields in `later` are read after that point
MainReadData ==
    /\ main_pc = "read_data"
    /\ \E later \in SUBSET TimeFields :
          /\ main_data' = [f \in FieldNames |->
                             IF f \in later THEN main_data[f] ELSE DCF77_DATA[f]]
          /\ unread' = later
    /\ main_pc' = "read_rest"
    /\ UNCHANGED <<main_second, time_info, led, done, per, pwmLog,
                   pending, cycle, fgTicks, sinceRead, prev>>
    /\ UNCHANGED <<UPDATE_TIME, cc0>>
    /\ MainFrame

MainReadRest ==
    /\ main_pc = "read_rest"
    /\ main_data' = [f \in FieldNames |->
                       IF f \in unread THEN DCF77_DATA[f] ELSE main_data[f]]
    /\ unread' = {}
    /\ main_pc' = "render"
    /\ UNCHANGED <<main_second, time_info, led, done, per, pwmLog,
                   pending, cycle, fgTicks, sinceRead, prev>>
    /\ UNCHANGED <<UPDATE_TIME, cc0>>
    /\ MainFrame

MainRender_clear ==
    /\ main_pc = "render"
    /\ time_info' = RenderTime(main_second, main_data)
    /\ cycle' = [cycle EXCEPT !.refreshes = @ + 1]
    /\ fgTicks' = 0
    /\ sinceRead' = 0
    /\ main_pc' = "send"
    /\ UPDATE_TIME' = FALSE
    /\ UNCHANGED <<main_second, main_data, unread, led, done, per, pwmLog,
                   pending, prev>>
    /\ UNCHANGED cc0
    /\ MainFrame

\* time_info[..] = b'0' + ..
MainRender ==
    /\ main_pc = "render"
    /\ time_info' = RenderTime(main_second, main_data)
    /\ cycle' = [cycle EXCEPT !.refreshes = @ + 1]
    /\ fgTicks' = 0
    /\ sinceRead' = 0
    /\ main_pc' = "send"
    /\ UNCHANGED <<main_second, main_data, unread, led, done, per, pwmLog,
                   pending, prev>>
    /\ UNCHANGED <<UPDATE_TIME, cc0>>
    /\ MainFrame

MainSend_mute ==
    /\ main_pc = "send"
    /\ main_pc' = "wait"
    /\ cc0' = 0
    /\ pwmLog' = pwmLog \cup {[reg |-> "CC0", ctx |-> "main"]}
    /\ UNCHANGED <<main_second, main_data, unread, time_info, led, done, per,
                   pending, cycle, fgTicks, sinceRead, prev>>
    /\ UNCHANGED UPDATE_TIME
    /\ MainFrame

\* let _ = i2c_display.set_location(..); let _ = i2c_display.write_text(..)
MainSend ==
    /\ main_pc = "send"
    /\ main_pc' = "wait"
    /\ UNCHANGED <<main_second, main_data, unread, time_info, led, done, per, pwmLog,
                   pending, cycle, fgTicks, sinceRead, prev>>
    /\ UNCHANGED <<UPDATE_TIME, cc0>>
    /\ MainFrame

\* panicked: set_io, make_output
PanicSetup ==
    /\ main_pc = "panic_setup"
    /\ main_pc' = "panic_high"
    /\ UNCHANGED <<main_second, main_data, unread, time_info, led, done, per, pwmLog,
                   pending, cycle, fgTicks, sinceRead, prev>>
    /\ UNCHANGED <<UPDATE_TIME, cc0>>
    /\ MainFrame

\* panicked: set_high; noppage()
PanicHigh ==
    /\ main_pc = "panic_high"
    /\ led' = TRUE
    /\ main_pc' = "panic_low"
    /\ UNCHANGED <<main_second, main_data, unread, time_info, done, per, pwmLog,
                   pending, cycle, fgTicks, sinceRead, prev>>
    /\ UNCHANGED <<UPDATE_TIME, cc0>>
    /\ MainFrame

PanicLow_exit ==
    /\ main_pc = "panic_low"
    /\ led' = FALSE
    /\ main_pc' = "start"
    /\ UNCHANGED <<main_second, main_data, unread, time_info, done, per, pwmLog,
                   pending, cycle, fgTicks, sinceRead, prev>>
    /\ UNCHANGED <<UPDATE_TIME, cc0>>
    /\ MainFrame

\* panicked: set_low; noppage()
PanicLow ==
    /\ main_pc = "panic_low"
    /\ led' = FALSE
    /\ main_pc' = "panic_high"
    /\ UNCHANGED <<main_second, main_data, unread, time_info, done, per, pwmLog,
                   pending, cycle, fgTicks, sinceRead, prev>>
    /\ UNCHANGED <<UPDATE_TIME, cc0>>
    /\ MainFrame

\* the handler interrupts the foreground loop between two of its steps
Interrupt ==
    /\ main_pc \in LoopPcs
    /\ ticks < MainSeconds * TicksPerSecond
    /\ main_pc \in FastPcs => fgTicks < MaxReadTicks
    /\ NextCounter(COUNTER) = 0 => pending < MaxPending
    /\ RTC
    /\ fgTicks' = IF main_pc \in FastPcs THEN fgTicks + 1 ELSE fgTicks
    /\ IF SECOND' # SECOND
       THEN /\ pending' = pending + 1
            /\ sinceRead' = IF main_pc \in {"read_data", "read_rest"}
                            THEN sinceRead + 1 ELSE sinceRead
            /\ prev' = [second |-> SECOND, data |-> DCF77_DATA]
            /\ pwmLog' = pwmLog \cup {[reg |-> "CC0", ctx |-> "RTC"]}
       ELSE UNCHANGED <<pending, sinceRead, prev, pwmLog>>
    /\ UNCHANGED <<main_pc, main_second, main_data, unread, time_info, led, done, per,
                   cycle>>
    /\ UNCHANGED tccVars
    /\ UNCHANGED displayVars

Foreground ==
    \/ MainTakeCore \/ MainTakePeripherals \/ MainSetup \/ MainSetupPwm
    \/ MainWait \/ MainClear \/ MainReadSecond \/ MainReadData \/ MainReadRest
    \/ MainRender \/ MainSend
    \/ PanicSetup \/ PanicHigh \/ PanicLow

NextMain == Foreground \/ Interrupt

\* the same program followed for its first BootSeconds seconds
NextBoot == Foreground \/ (ticks < BootSeconds * TicksPerSecond /\ Interrupt)

----------------------------------------------------------------------------
(* main.rs, pwm.rs: the handler with the wait of set_duty_cycle as steps of its own *)

TccFrame ==
    /\ UNCHANGED codecVars
    /\ UNCHANGED i2cVars
    /\ UNCHANGED mainVars
    /\ UNCHANGED displayVars

\* an invocation that returns at `if *COUNTER != 0 { return; }`
TccGate ==
    /\ rtc_pc = "idle"
    /\ RtcIdle
    /\ UNCHANGED tccVars
    /\ UNCHANGED displayVars
    /\ UNCHANGED mainVars

\* an invocation at a second boundary, up to the write of CC[0] in set_duty_cycle
TccWrite ==
    /\ rtc_pc = "idle"
    /\ NextCounter(COUNTER) = 0
    /\ COUNTER' = NextCounter(COUNTER)
    /\ SECOND' = NextSecond(SECOND)
    /\ IF SECOND' = 59
       THEN /\ minutes < MaxMinutes
            /\ cc0' = 0
            /\ DCF77_DATA' = increment_minute(DCF77_DATA)
            /\ MINUTE' = to_bits(DCF77_DATA')
            /\ minutes' = minutes + 1
            /\ Record(<< [kind |-> "reencode", writes |-> <<0>>] >>)
       ELSE /\ MINUTE' = ShiftRight(MINUTE)
            /\ cc0' = DutyFor(0 \in MINUTE)
            /\ Record(<< [kind |-> "shift", writes |-> <<DutyFor(0 \in MINUTE)>>] >>)
            /\ UNCHANGED <<DCF77_DATA, minutes>>
    /\ syncbusy' = TRUE
    /\ rtc_pc' = "sync_read"
    /\ UNCHANGED <<UPDATE_TIME, busy>>
    /\ TccFrame

\* hardware: the write to CC[0] has been synchronised
HwCc0Synced ==
    /\ syncbusy
    /\ syncbusy' = FALSE
    /\ UNCHANGED <<rtc_pc, busy>>
    /\ UNCHANGED schedVars
    /\ TccFrame

\* while register_block.syncbusy.read().cc0().bit_is_set() {}: the read
TccReadSync ==
    /\ rtc_pc = "sync_read"
    /\ busy' = syncbusy
    /\ rtc_pc' = "sync_test"
    /\ UNCHANGED syncbusy
    /\ UNCHANGED schedVars
    /\ TccFrame

\* the test of the bit read; when it is clear, the handler goes on to
\* UPDATE_TIME.set(true) and returns
TccTestSync ==
    /\ rtc_pc = "sync_test"
    /\ IF busy
       THEN /\ rtc_pc' = "sync_read"
            /\ UNCHANGED UPDATE_TIME
       ELSE /\ rtc_pc' = "idle"
            /\ UPDATE_TIME' = TRUE
    /\ UNCHANGED <<syncbusy, busy>>
    /\ UNCHANGED <<COUNTER, MINUTE, SECOND, DCF77_DATA, cc0, ticks, hist, minutes>>
    /\ TccFrame

NextTcc == TccGate \/ TccWrite \/ HwCc0Synced \/ TccReadSync \/ TccTestSync

----------------------------------------------------------------------------
(* i2c_controller.rs *)

CMD_BYTE_READ == 2
CMD_STOP == 3

\* addresses and data bytes the driver is called with, and bytes the bus delivers
Addresses == {39, 127, 128, 255}
Bytes == {0, 165}

RECURSIVE SeqsUpTo(_)
SeqsUpTo(n) == IF n = 0 THEN {<<>>}
               ELSE SeqsUpTo(n - 1) \cup { Append(q, b) : q \in [1..(n - 1) -> Bytes], b \in Bytes }

\* I2cErrorByteInfo
AtAddress(address) == [tag |-> "Address", byte |-> address, index |-> 0]
AtData(index, byte) == [tag |-> "Data", byte |-> byte, index |-> index]
AtStopBit == [tag |-> "StopBit", byte |-> 0, index |-> 0]
NoByteInfo == [tag |-> "none", byte |-> 0, index |-> 0]

\* Result<(), I2cError>; "none" while nothing has been returned
NoResult == [state |-> "none", kind |-> "none", byte_info |-> NoByteInfo]
Ok == [state |-> "ok", kind |-> "none", byte_info |-> NoByteInfo]
Err(kind, byte_info) == [state |-> "err", kind |-> kind, byte_info |-> byte_info]

NoXfer == [op |-> "none", address |-> 0, data |-> <<>>, index |-> 0, byte |-> 0,
           phase |-> "none", handled |-> <<>>]

InvalidAddress_above(address) == address > 128

\* address & 0b1000_0000 != 0
InvalidAddress(address) == BitSet(address, 128)

\* let address_and_write: u8 = address << 1
AddressAndWrite(address) == (address * 2) % 256

\* let address_and_read: u8 = (address << 1) | 0b1
AddressAndRead(address) == ((address * 2) % 256) + 1

PhaseInfo_next_index(x) ==
    IF x.phase = "address" THEN AtAddress(x.address)
    ELSE IF x.phase = "data" THEN AtData(x.index + 1, x.byte)
    ELSE AtStopBit

\* the locator handed to wait_and_check_bus_status in the current phase
PhaseInfo(x) ==
    IF x.phase = "address" THEN AtAddress(x.address)
    ELSE IF x.phase = "data" THEN AtData(x.index, x.byte)
    ELSE AtStopBit

CheckStatus_ignore_arblost(b, byte_info) ==
    IF b.buserr THEN Err("BusError", byte_info)
    ELSE IF ~b.rxnack THEN Err("NotAcknowledged", byte_info)
    ELSE Ok

CheckStatus_nack_ok(b, byte_info) ==
    IF b.buserr THEN Err("BusError", byte_info)
    ELSE IF b.arblost THEN Err("ArbitrationLost", byte_info)
    ELSE Ok

CheckStatus_arblost_first(b, byte_info) ==
    IF b.arblost THEN Err("ArbitrationLost", byte_info)
    ELSE IF b.buserr THEN Err("BusError", byte_info)
    ELSE IF ~b.rxnack THEN Err("NotAcknowledged", byte_info)
    ELSE Ok

\* wait_and_check_bus_status, from `let bus_status = ...` on: the value returned
CheckStatus(b, byte_info) ==
    IF b.buserr THEN Err("BusError", byte_info)
    ELSE IF b.arblost THEN Err("ArbitrationLost", byte_info)
    ELSE IF ~b.rxnack THEN Err("NotAcknowledged", byte_info)
    ELSE Ok

\* ... and the registers after the write-one-to-clear of INTFLAG.MB and STATUS
ClearedStatus(b) ==
    IF b.buserr THEN [b EXCEPT !.mb = FALSE, !.buserr = FALSE, !.arblost = FALSE]
    ELSE IF b.arblost THEN [b EXCEPT !.mb = FALSE, !.arblost = FALSE]
    ELSE [b EXCEPT !.mb = FALSE]

\* the value of STATUS as far as the driver looks at it: BUSERR is bit 0, ARBLOST
\* bit 1 and RXNACK bit 2
StatusValue(b) ==
    (IF b.buserr THEN 1 ELSE 0) + (IF b.arblost THEN 2 ELSE 0) + (IF b.rxnack THEN 4 ELSE 0)

\* ... and the register accesses it makes
CheckAccesses(b) ==
    << [reg |-> "INTFLAG", op |-> "clear_mb", val |-> 0],
       [reg |-> "STATUS", op |-> "read", val |-> StatusValue(b)] >>
    \o (IF b.buserr THEN << [reg |-> "STATUS", op |-> "clear_buserr_arblost", val |-> 0] >>
        ELSE IF b.arblost THEN << [reg |-> "STATUS", op |-> "clear_arblost", val |-> 0] >>
        ELSE <<>>)

\* a register write that is followed by `while syncbusy.sysop().bit_is_set() {}`
WriteReg(reg, op, val) ==
    /\ busLog' = busLog \o CheckAccesses(bus) \o << [reg |-> reg, op |-> op, val |-> val] >>
    /\ bus' = [ClearedStatus(bus) EXCEPT !.sysop = TRUE]
    /\ i2c_pc' = "sync"

\* SercomI2cController::send, up to the first wait
I2cSend(address, data) ==
    /\ i2c_pc = "idle"
    /\ IF InvalidAddress(address)
       THEN /\ result' = Err("InvalidAddress", AtAddress(address))
            /\ i2c_pc' = "returned"
            /\ xfer' = [NoXfer EXCEPT !.op = "send", !.address = address, !.data = data]
            /\ UNCHANGED <<bus, busLog>>
       ELSE /\ busLog' = << [reg |-> "ADDR", op |-> "write", val |-> AddressAndWrite(address)] >>
            /\ bus' = [bus EXCEPT !.sysop = TRUE]
            /\ i2c_pc' = "sync"
            /\ xfer' = [NoXfer EXCEPT !.op = "send", !.address = address, !.data = data,
                                      !.phase = "address"]
            /\ UNCHANGED result

\* SercomI2cController::receive, up to the first wait
I2cReceive(address) ==
    /\ i2c_pc = "idle"
    /\ IF InvalidAddress(address)
       THEN /\ result' = Err("InvalidAddress", AtAddress(address))
            /\ i2c_pc' = "returned"
            /\ xfer' = [NoXfer EXCEPT !.op = "receive", !.address = address]
            /\ UNCHANGED <<bus, busLog>>
       ELSE /\ busLog' = << [reg |-> "ADDR", op |-> "write", val |-> AddressAndRead(address)] >>
            /\ bus' = [bus EXCEPT !.sysop = TRUE]
            /\ i2c_pc' = "sync"
            /\ xfer' = [NoXfer EXCEPT !.op = "receive", !.address = address,
                                      !.phase = "address"]
            /\ UNCHANGED result

\* hardware: the write has been synchronised
HwSync ==
    /\ bus.sysop
    /\ bus' = [bus EXCEPT !.sysop = FALSE]
    /\ UNCHANGED <<i2c_pc, xfer, busLog, result>>

\* hardware: the bus operation is over; INTFLAG.MB is raised, STATUS and DATA are
\* whatever the bus produced
HwByteComplete ==
    /\ i2c_pc \in {"sync", "wait_mb"}
    /\ ~bus.mb
    /\ \E be \in BOOLEAN, al \in BOOLEAN, nk \in BOOLEAN, d \in Bytes :
          bus' = [bus EXCEPT !.mb = TRUE, !.buserr = be, !.arblost = al, !.rxnack = nk,
                             !.data = d]
    /\ UNCHANGED <<i2c_pc, xfer, busLog, result>>

\* the driver leaves `while syncbusy.sysop().bit_is_set() {}`; in receive's loop it
\* then reads DATA before it waits for the byte to complete
I2cSynced ==
    /\ i2c_pc = "sync"
    /\ ~bus.sysop
    /\ i2c_pc' = "wait_mb"
    /\ IF xfer.op = "receive" /\ xfer.phase = "data"
       THEN /\ xfer' = [xfer EXCEPT !.byte = bus.data]
            /\ busLog' = Append(busLog, [reg |-> "DATA", op |-> "read", val |-> bus.data])
       ELSE UNCHANGED <<xfer, busLog>>
    /\ UNCHANGED <<bus, result>>

\* the driver leaves `while intflag.mb().bit_is_clear() {}`: the rest of
\* wait_and_check_bus_status and the caller's code up to its next wait or return
I2cCheck ==
    /\ i2c_pc = "wait_mb"
    /\ bus.mb
    /\ LET r == CheckStatus(bus, PhaseInfo(xfer)) IN
       IF r.state = "err" \/ xfer.phase = "stop"
       THEN \* `?` returns the error; the check after STOP is the function's value
            /\ result' = r
            /\ i2c_pc' = "returned"
            /\ bus' = ClearedStatus(bus)
            /\ busLog' = busLog \o CheckAccesses(bus)
            /\ UNCHANGED xfer
       ELSE IF xfer.op = "send"
       THEN LET next == IF xfer.phase = "address" THEN 0 ELSE xfer.index + 1 IN
            /\ UNCHANGED result
            /\ IF next < Len(xfer.data)
               THEN /\ WriteReg("DATA", "write", xfer.data[next + 1])
                    /\ xfer' = [xfer EXCEPT !.phase = "data", !.index = next,
                                            !.byte = xfer.data[next + 1]]
               ELSE /\ WriteReg("CTRLB", "cmd", CMD_STOP)
                    /\ xfer' = [xfer EXCEPT !.phase = "stop",
                                            !.index = IF xfer.phase = "address" THEN 0 ELSE next]
       ELSE IF xfer.phase = "address"
       THEN \* receive: first pass of the loop reads DATA right away
            /\ UNCHANGED result
            /\ xfer' = [xfer EXCEPT !.phase = "data", !.index = 0, !.byte = bus.data]
            /\ bus' = ClearedStatus(bus)
            /\ busLog' = busLog \o CheckAccesses(bus)
                         \o << [reg |-> "DATA", op |-> "read", val |-> bus.data] >>
            /\ i2c_pc' = "wait_mb"
       ELSE \* receive: the byte is handed to handle_byte, which answers acknowledge
            /\ UNCHANGED result
            /\ \E acknowledge \in BOOLEAN :
                  /\ (acknowledge => xfer.index + 1 < MaxRead)
                  /\ IF acknowledge
                     THEN /\ WriteReg("CTRLB", "ackact_set_cmd", CMD_BYTE_READ)
                          /\ xfer' = [xfer EXCEPT !.index = xfer.index + 1,
                                                  !.handled = Append(xfer.handled, xfer.byte)]
                     ELSE /\ WriteReg("CTRLB", "ackact_clear_cmd", CMD_STOP)
                          /\ xfer' = [xfer EXCEPT !.index = xfer.index + 1, !.phase = "stop",
                                                  !.handled = Append(xfer.handled, xfer.byte)]

I2cReturn_abort ==
    /\ i2c_pc # "idle"
    /\ i2c_pc' = "idle"
    /\ xfer' = NoXfer
    /\ busLog' = <<>>
    /\ result' = NoResult
    /\ UNCHANGED bus

\* the caller takes the returned value; the driver can be called again
I2cReturn ==
    /\ i2c_pc = "returned"
    /\ i2c_pc' = "idle"
    /\ xfer' = NoXfer
    /\ busLog' = <<>>
    /\ result' = NoResult
    /\ UNCHANGED bus

NextI2c ==
    \/ \E address \in Addresses, data \in SeqsUpTo(MaxData) :
          I2cSend(address, data) /\ UNCHANGED codecVars /\ UNCHANGED schedVars /\ UNCHANGED progVars
    \/ \E address \in Addresses :
          I2cReceive(address) /\ UNCHANGED codecVars /\ UNCHANGED schedVars /\ UNCHANGED progVars
    \/ (HwSync /\ UNCHANGED codecVars /\ UNCHANGED schedVars /\ UNCHANGED progVars)
    \/ (HwByteComplete /\ UNCHANGED codecVars /\ UNCHANGED schedVars /\ UNCHANGED progVars)
    \/ (I2cSynced /\ UNCHANGED codecVars /\ UNCHANGED schedVars /\ UNCHANGED progVars)
    \/ (I2cCheck /\ UNCHANGED codecVars /\ UNCHANGED schedVars /\ UNCHANGED progVars)
    \/ (I2cReturn /\ UNCHANGED codecVars /\ UNCHANGED schedVars /\ UNCHANGED progVars)

----------------------------------------------------------------------------
(* i2c_display.rs: transmit_byte and transmit_nibble; every T::send is a call of
   the driver above and is taken here by what it returns *)

\* the display's bus address (main.rs: I2cDisplaySercom0::new(0b010_0111, true))
DisplayAddress == 39

\* bytes transmit_byte is called with: a character and a set_location command
DisplayBytes == {65, 148}

\* what a send to the display can return
SendResults ==
    {Ok} \cup { Err(k, AtAddress(DisplayAddress)) : k \in {"BusError", "NotAcknowledged"} }
         \cup { Err("ArbitrationLost", AtStopBit) }

NoTransmit == [pc |-> "idle", byte |-> 0, rs |-> FALSE, backlight |-> FALSE,
               part |-> "none", sends |-> 0, sent |-> <<>>,
               upper_error |-> NoResult, lower_error |-> NoResult, ret |-> NoResult]

\* the three bytes transmit_nibble sends: E low, E high, E low
NibbleBytes(nibble, rs, backlight) ==
    LET backlight_flag == IF backlight THEN 8 ELSE 0
        rs_flag == IF rs THEN 1 ELSE 0
        transmit_me == ((nibble * 16) % 256) + backlight_flag + rs_flag
    IN << transmit_me, transmit_me + 4, transmit_me >>

\* byte >> 4, byte & 0xF
UpperNibble(byte) == byte \div 16
LowerNibble(byte) == byte % 16

\* Result::or
ResultOr(a, b) == IF a.state = "ok" THEN a ELSE b

\* a call of transmit_byte
TransmitByte(byte, rs, backlight) ==
    /\ disp.pc = "idle"
    /\ disp' = [NoTransmit EXCEPT !.pc = "nibble", !.byte = byte, !.rs = rs,
                                  !.backlight = backlight, !.part = "upper"]

\* one T::send(..)? of transmit_nibble: an error ends the nibble, the third
\* success ends it with Ok(())
TransmitNibbleSend(r) ==
    /\ disp.pc = "nibble"
    /\ LET nibble == IF disp.part = "upper" THEN UpperNibble(disp.byte)
                     ELSE LowerNibble(disp.byte)
           b == NibbleBytes(nibble, disp.rs, disp.backlight)[disp.sends + 1]
           over == r.state = "err" \/ disp.sends = 2
           d == [disp EXCEPT !.sent = Append(@, b)]
       IN
       disp' = IF ~over THEN [d EXCEPT !.sends = @ + 1]
               ELSE IF disp.part = "upper"
                    THEN [d EXCEPT !.upper_error = r, !.part = "lower", !.sends = 0]
                    ELSE [d EXCEPT !.lower_error = r, !.part = "none", !.sends = 0,
                                   !.pc = "or"]

\* upper_error.or(lower_error)
TransmitByteReturn ==
    /\ disp.pc = "or"
    /\ disp' = [disp EXCEPT !.ret = ResultOr(disp.upper_error, disp.lower_error),
                            !.pc = "returned"]

DisplayFrame ==
    /\ UNCHANGED codecVars
    /\ UNCHANGED schedVars
    /\ UNCHANGED i2cVars
    /\ UNCHANGED mainVars
    /\ UNCHANGED tccVars

NextDisplay ==
    \/ \E byte \in DisplayBytes, rs \in BOOLEAN, backlight \in BOOLEAN :
          TransmitByte(byte, rs, backlight) /\ DisplayFrame
    \/ \E r \in SendResults : TransmitNibbleSend(r) /\ DisplayFrame
    \/ (TransmitByteReturn /\ DisplayFrame)

----------------------------------------------------------------------------
Init ==
    /\ tc = new
    /\ enc = [valid |-> FALSE, bits |-> {}]
    /\ past = <<>>
    /\ COUNTER = 31
    /\ MINUTE = {}
    /\ SECOND = 59
    /\ DCF77_DATA = new
    /\ UPDATE_TIME = FALSE
    /\ cc0 = 0
    /\ ticks = 0
    /\ hist = <<>>
    /\ minutes = 0
    /\ i2c_pc = "idle"
    /\ xfer = NoXfer
    /\ bus = [mb |-> FALSE, sysop |-> FALSE, buserr |-> FALSE, arblost |-> FALSE,
              rxnack |-> FALSE, data |-> 0]
    /\ busLog = <<>>
    /\ result = NoResult
    /\ main_pc = "start"
    /\ main_second = 0
    /\ main_data = new
    /\ unread = {}
    /\ time_info = <<>>
    /\ led = FALSE
    /\ done = <<>>
    /\ per = 0
    /\ pwmLog = {}
    /\ pending = 0
    /\ cycle = [k |-> 0, refreshes |-> 0]
    /\ fgTicks = 0
    /\ sinceRead = 0
    /\ prev = [second |-> 59, data |-> new]
    /\ rtc_pc = "idle"
    /\ syncbusy = FALSE
    /\ busy = FALSE
    /\ disp = NoTransmit

Next ==
    \/ (RtcIdle /\ UNCHANGED progVars)
    \/ (RtcReencode /\ UNCHANGED progVars)
    \/ (RtcShift /\ UNCHANGED progVars)

Spec == Init /\ [][Next]_vars

SpecCodec == Init /\ [][NextCodec]_vars

\* the processor keeps executing the wait loop of set_duty_cycle; nothing is
\* assumed of the hardware
SpecTcc ==
    /\ Init /\ [][NextTcc]_vars
    /\ WF_vars(TccReadSync) /\ WF_vars(TccTestSync)

\* the processor keeps executing panicked
SpecMain ==
    /\ Init /\ [][NextMain]_vars
    /\ WF_vars(PanicSetup) /\ WF_vars(PanicHigh) /\ WF_vars(PanicLow)

\* the start of main: panicked() is a loop of the foreground that nothing
\* interrupts (no handler is enabled before the set-up), so each of its steps
\* that stays enabled is taken
SpecBoot ==
    /\ Init /\ [][NextBoot]_vars
    /\ WF_vars(PanicSetup) /\ WF_vars(PanicHigh) /\ WF_vars(PanicLow)

SpecI2c == Init /\ [][NextI2c]_vars

SpecDisplay == Init /\ [][NextDisplay]_vars

\* the driver's busy-wait loops run on, and the hardware ends every synchronisation
\* and every bus operation it has begun
SpecI2cLive ==
    /\ Init /\ [][NextI2c]_vars
    /\ WF_vars(HwSync /\ UNCHANGED codecVars /\ UNCHANGED schedVars /\ UNCHANGED progVars)
    /\ WF_vars(HwByteComplete /\ UNCHANGED codecVars /\ UNCHANGED schedVars /\ UNCHANGED progVars)
    /\ WF_vars(I2cSynced /\ UNCHANGED codecVars /\ UNCHANGED schedVars /\ UNCHANGED progVars)
    /\ WF_vars(I2cCheck /\ UNCHANGED codecVars /\ UNCHANGED schedVars /\ UNCHANGED progVars)

----------------------------------------------------------------------------
(* Properties of the codec, checked under SpecCodec *)

\* the first 59 bit positions of a frame
FrameBits == 0..58

Even(n) == n % 2 = 0

\* C1: every frame to_bits produces for a TimeCode reachable from new() by
\* increment_minute has bit 0 clear and bit 20 set.
C1_StartMarkers == enc.valid => (0 \notin enc.bits /\ 20 \in enc.bits)

C1_Witness == enc.valid /\ tc # new /\ tc.minute_ones = 7

\* C2: in every such frame each of the groups 21..28 (minute and parity), 29..35
\* (hour and parity) and 36..58 (date and parity) has an even number of set bits.
C2_EvenParity ==
    enc.valid =>
        /\ Even(Cardinality(enc.bits \cap (21..28)))
        /\ Even(Cardinality(enc.bits \cap (29..35)))
        /\ Even(Cardinality(enc.bits \cap (36..58)))

C2_Witness ==
    /\ enc.valid
    /\ tc.minute_tens = 4 /\ tc.minute_ones = 3 /\ 28 \in enc.bits
    /\ tc.hour_tens = 0 /\ tc.hour_ones = 3 /\ 35 \notin enc.bits
    /\ 58 \in enc.bits

\* C3: from every reachable TimeCode, 1440 applications of increment_minute lead
\* back to the same hour and minute digits (past[1] holds the digits the TimeCode
\* had 1440 increments ago).
C3_DayCycle == Len(past) = MinutesPerDay => HourMinute(tc) = past[1]

C3_Witness ==
    /\ Len(past) = MinutesPerDay
    /\ HourMinute(tc) = <<2, 3, 5, 9>>
    /\ past[2] = <<0, 0, 0, 0>>

\* C4: every reachable TimeCode keeps its digits in range: minute_ones 0..9,
\* minute_tens 0..5, hour_ones 0..9, hour_tens 0..2, hour below 24,
\* day_of_week 1..7, month_ones 0..9.
C4_DigitRanges ==
    /\ tc.minute_ones \in 0..9
    /\ tc.minute_tens \in 0..5
    /\ tc.hour_ones \in 0..9
    /\ tc.hour_tens \in 0..2
    /\ (tc.hour_tens = 2 => tc.hour_ones \in 0..3)
    /\ 10 * tc.hour_tens + tc.hour_ones < 24
    /\ tc.day_of_week \in 1..7
    /\ tc.month_ones \in 0..9

C4_Witness == HourMinute(tc) = <<0, 0, 0, 0>> /\ tc.day_of_week = 2

GoldenFrame == {17, 20, 27, 28, 33, 35, 40, 43, 47, 54, 57, 58}

\* C5: the frame of the initial TimeCode is exactly the bits 17, 20, 27, 28, 33,
\* 35, 40, 43, 47, 54, 57, 58 (whenever it is encoded).
C5_GoldenVector == (enc.valid /\ tc = new) => (enc.bits = GoldenFrame /\ enc.bits \subseteq FrameBits)

C5_Witness == enc.valid /\ tc = new /\ 17 \in enc.bits

\* C6: reading the fields back from their documented bit positions of the frame
\* of a reachable TimeCode gives that TimeCode again.
C6_RoundTrip == enc.valid => decode(enc.bits) = tc

C6_Witness == enc.valid /\ tc.hour_ones = 8 /\ tc.minute_ones = 9 /\ tc.minute_tens = 5

NonTimeFields(d) ==
    << d.civil_warning, d.abnormal_operation, d.summer_announcement, d.cest, d.cet,
       d.leap_second_announcement, d.day_of_month_ones, d.day_of_month_tens,
       d.day_of_week, d.month_ones, d.month_ten,
       d.year_in_century_ones, d.year_in_century_tens >>

\* C7: a call of increment_minute leaves every field other than the minute and
\* hour digits as it was, also when it wraps 23:59 to 00:00.
C7_OnlyTimeFields == [][tc' # tc => NonTimeFields(tc') = NonTimeFields(tc)]_vars

C7_Witness == HourMinute(tc) = <<0, 0, 0, 0>> /\ NonTimeFields(tc) = NonTimeFields(new)

\* the minute of the day a TimeCode stands for
MinuteOfDay(d) == (10 * d.hour_tens + d.hour_ones) * 60 + 10 * d.minute_tens + d.minute_ones

\* the digit tuples seen in the last increments, the present one included
Seen == { past[i] : i \in DOMAIN past } \cup { HourMinute(tc) }

\* C23: increment_minute takes minute of the day m to (m + 1) mod 1440 and keeps
\* the digits such that the minute of the day determines them; the TimeCodes of n
\* successive increments, n < 1440, are n + 1 different hour/minute states, and
\* there are 1440 of them in all.
C23_MinuteOfDaySuccessor ==
    [][tc' # tc =>
          /\ MinuteOfDay(tc') = (MinuteOfDay(tc) + 1) % MinutesPerDay
          /\ tc'.minute_ones \in 0..9 /\ tc'.minute_tens \in 0..5
          /\ tc'.hour_ones \in 0..9 /\ tc'.hour_tens \in 0..2
          /\ Cardinality(Seen') = (IF Len(past') < MinutesPerDay THEN Len(past') + 1
                                   ELSE MinutesPerDay)
      ]_vars

C23_Witness ==
    /\ MinuteOfDay(tc) = 0
    /\ tc.hour_tens = 0 /\ tc.hour_ones = 0
    /\ past[Len(past)] = <<2, 3, 5, 9>>
    /\ Cardinality(Seen) = Len(past) + 1

----------------------------------------------------------------------------
(* Properties of the scheduler, checked under Spec *)

HighPreset == (CORE_CLOCK_SPEED_HZ \div FREQUENCY_HZ) \div 2
LowPreset == (CORE_CLOCK_SPEED_HZ \div FREQUENCY_HZ) \div 44

\* what the invocation numbered t did, as far as h tells
KindOf(h, t) == IF h # <<>> /\ h[Len(h)].tick = t THEN h[Len(h)].kind ELSE "idle"
WritesOf(h, t) == IF h # <<>> /\ h[Len(h)].tick = t THEN h[Len(h)].writes ELSE <<>>

\* how many of the n invocations up to the one numbered t passed the sub-tick gate
Boundaries(h, t, n) == Cardinality({ i \in DOMAIN h : h[i].tick > t - n })

\* how many of the HistLen invocations up to the one numbered t took path k
KindCount(h, t, k) == Cardinality({ i \in DOMAIN h : h[i].tick > t - HistLen /\ h[i].kind = k })

\* C8: of any 32 consecutive handler invocations exactly one advances the second;
\* when the new second is not 59 that invocation writes the duty cycle once, with
\* the preset of the least-significant bit of the stored frame; an invocation that
\* does not advance the second changes nothing but the sub-tick counter.
C8_OneSecondPer32Ticks ==
    [][ticks' # ticks =>
        LET kind == KindOf(hist', ticks')
            writes == WritesOf(hist', ticks')
        IN
        /\ ticks' = ticks + 1
        /\ (kind = "idle") = (SECOND' = SECOND)
        /\ kind = "idle" =>
              /\ UNCHANGED <<MINUTE, SECOND, DCF77_DATA, UPDATE_TIME, cc0>>
              /\ writes = <<>>
        /\ kind # "idle" => SECOND' = (SECOND + 1) % 60
        /\ (kind # "idle" /\ SECOND' # 59) =>
              /\ writes = << IF 0 \in MINUTE THEN HighPreset ELSE LowPreset >>
              /\ cc0' = writes[1]
        /\ ticks' >= TicksPerSecond => Boundaries(hist', ticks', TicksPerSecond) = 1
    ]_vars

C8_Witness ==
    /\ ticks >= TicksPerSecond
    /\ KindOf(hist, ticks) = "shift"
    /\ WritesOf(hist, ticks) = <<HighPreset>>
    /\ cc0 = HighPreset
    /\ SECOND = 20

\* C9: any 1920 consecutive handler invocations contain exactly one re-encode
\* (increment_minute followed by to_bits) and exactly 59 bit shifts.
C9_OneReencodePerMinute ==
    [][ticks' # ticks =>
        LET kind == KindOf(hist', ticks') IN
        /\ kind = "reencode" =>
              /\ DCF77_DATA' = increment_minute(DCF77_DATA)
              /\ MINUTE' = to_bits(DCF77_DATA')
        /\ DCF77_DATA' # DCF77_DATA => kind = "reencode"
        /\ kind = "shift" =>
              /\ MINUTE' = ShiftRight(MINUTE)
              /\ SECOND' # SECOND
              /\ DCF77_DATA' = DCF77_DATA
        /\ ticks' >= HistLen =>
              /\ KindCount(hist', ticks', "reencode") = 1
              /\ KindCount(hist', ticks', "shift") = 59
    ]_vars

C9_Witness ==
    /\ ticks >= HistLen
    /\ minutes = 2
    /\ KindOf(hist, ticks) = "shift"
    /\ KindCount(hist, ticks, "reencode") = 1
    /\ KindCount(hist, ticks, "shift") = 59

\* C19: the invocation that advances the second to 59 writes duty cycle 0, replaces
\* DCF77_DATA by increment_minute(DCF77_DATA) and stores to_bits of the new value,
\* unshifted, in MINUTE; while the second stays 59 the duty cycle stays 0 and
\* nothing of that is touched.
C19_ReencodeAtSecond59 ==
    [][(ticks' # ticks /\ SECOND' = 59) =>
          /\ cc0' = 0
          /\ SECOND # 59 =>
                /\ WritesOf(hist', ticks') = <<0>>
                /\ DCF77_DATA' = increment_minute(DCF77_DATA)
                /\ MINUTE' = to_bits(DCF77_DATA')
          /\ SECOND = 59 =>
                /\ WritesOf(hist', ticks') = <<>>
                /\ UNCHANGED <<DCF77_DATA, MINUTE>>
      ]_vars

C19_Witness ==
    /\ SECOND = 59
    /\ minutes = 2
    /\ KindOf(hist, ticks) = "idle"
    /\ cc0 = 0
    /\ DCF77_DATA = increment_minute(increment_minute(new))
    /\ MINUTE = to_bits(DCF77_DATA)

\* the frame last stored by the handler: MINUTE starts as 0
StoredFrame == IF minutes = 0 THEN {} ELSE to_bits(DCF77_DATA)

\* C20 as stated: the invocation that advances the second to a value other than 59
\* shifts the least-significant bit out of MINUTE and writes the preset of that
\* bit, and that bit is the frame bit numbered by the second just completed.
C20_BitOfCompletedSecond ==
    [][(ticks' # ticks /\ SECOND' # SECOND /\ SECOND' # 59) =>
          /\ MINUTE' = ShiftRight(MINUTE)
          /\ cc0' = (IF 0 \in MINUTE THEN HighPreset ELSE LowPreset)
          /\ (0 \in MINUTE) = (SECOND \in StoredFrame)
      ]_vars

\* C20 as amended: the invocation that advances the second to a value other than 59
\* shifts the least-significant bit out of MINUTE and writes the preset of that
\* bit, and that bit is the bit of the frame last stored that is numbered by the
\* second just begun.
C20_BitOfNewSecond ==
    [][(ticks' # ticks /\ SECOND' # SECOND /\ SECOND' # 59) =>
          /\ MINUTE' = ShiftRight(MINUTE)
          /\ cc0' = (IF 0 \in MINUTE THEN HighPreset ELSE LowPreset)
          /\ (0 \in MINUTE) = (SECOND' \in StoredFrame)
          /\ cc0' = (IF SECOND' \in StoredFrame THEN HighPreset ELSE LowPreset)
      ]_vars

C20_Witness ==
    /\ KindOf(hist, ticks) = "shift"
    /\ SECOND = 17
    /\ minutes = 1
    /\ 17 \in StoredFrame /\ 16 \notin StoredFrame
    /\ cc0 = HighPreset
    /\ 2 \in MINUTE

\* what is left of frame f once its bits 0..s have been shifted out
Remaining(f, s) == { b - (s + 1) : b \in { x \in f : x > s } }

\* C22: in every second s other than 59 MINUTE holds the bits s+1..58 of the frame
\* last stored and nothing else; the invocation that re-encodes finds MINUTE
\* empty, follows 59 shifts, and the duty cycle it replaces by 0 is the preset of
\* bit 58 of that frame.
C22_ReencodeAfterBit58 ==
    [][ticks' # ticks =>
          /\ SECOND' # 59 => MINUTE' = Remaining(StoredFrame', SECOND')
          /\ (SECOND' = 59 /\ SECOND # 59) =>
                /\ SECOND = 58
                /\ MINUTE = {}
                /\ cc0 = (IF 58 \in StoredFrame THEN HighPreset ELSE LowPreset)
                /\ KindCount(hist', ticks', "shift") = 59
                /\ KindCount(hist', ticks', "reencode") = 1
      ]_vars

C22_Witness ==
    /\ KindOf(hist, ticks) = "reencode"
    /\ minutes = 2
    /\ hist[Len(hist) - 1].kind = "shift"
    /\ hist[Len(hist) - 1].tick = ticks - TicksPerSecond
    /\ KindCount(hist, ticks, "shift") = 59
    /\ MINUTE = to_bits(DCF77_DATA)

\* C24: COUNTER is always in 0..31 and SECOND always in 0..59; the second that
\* follows 59 is 0.
C24_CounterRanges ==
    [][/\ COUNTER \in 0..31 /\ COUNTER' \in 0..31
       /\ SECOND \in 0..59 /\ SECOND' \in 0..59
       /\ (SECOND = 59 /\ SECOND' # SECOND) => SECOND' = 0
      ]_vars

C24_Witness ==
    /\ SECOND = 0
    /\ COUNTER = 0
    /\ minutes = 1
    /\ KindOf(hist, ticks) = "shift"

----------------------------------------------------------------------------
(* Properties of the I2C driver, checked under SpecI2c *)

\* C10: a call of send or receive with an address of 0x80 or above returns
\* InvalidAddress located at Address(address) at once; it accesses no register
\* (the log of register accesses stays empty) and leaves the bus registers as
\* they were.
C10_InvalidAddressNoAccess ==
    [][(i2c_pc = "idle" /\ i2c_pc' # "idle" /\ xfer'.address >= 128) =>
          /\ i2c_pc' = "returned"
          /\ result' = Err("InvalidAddress", AtAddress(xfer'.address))
          /\ busLog' = <<>>
          /\ bus' = bus
      ]_vars

C10_Witness ==
    /\ i2c_pc = "returned"
    /\ xfer.address = 128
    /\ xfer.op = "send"
    /\ result.kind = "InvalidAddress"
    /\ busLog = <<>>

\* STATUS.RXNACK ("received not acknowledge") is the flag the hardware sets when the
\* addressed peripheral did not acknowledge the last address or data byte
RxNack(b) == b.rxnack

\* the driver is about to leave its wait for INTFLAG.MB and run the status check
AtCheck == i2c_pc = "wait_mb" /\ bus.mb /\ busLog' # busLog

\* the entries of a register log that start a bus operation, in order
Commands(log) == SelectSeq(log, LAMBDA e : e.reg \in {"ADDR", "DATA", "CTRLB"} /\ e.op # "read")
DataWrites(log) == SelectSeq(log, LAMBDA e : e.reg = "DATA" /\ e.op = "write")
DataReads(log) == SelectSeq(log, LAMBDA e : e.reg = "DATA" /\ e.op = "read")
StatusReads(log) == SelectSeq(log, LAMBDA e : e.reg = "STATUS" /\ e.op = "read")
Stops(log) == SelectSeq(log, LAMBDA e : e.reg = "CTRLB" /\ e.val = CMD_STOP)
Values(q) == [i \in DOMAIN q |-> q[i].val]

\* C11: when the status after the address byte of a send shows no bus error, no
\* arbitration loss and a missing acknowledgement, send returns NotAcknowledged at
\* Address(address) without writing a data byte or the address again.
C11_NackAtAddress ==
    [][(AtCheck /\ xfer.op = "send" /\ xfer.phase = "address"
            /\ ~bus.buserr /\ ~bus.arblost /\ RxNack(bus)) =>
          /\ i2c_pc' = "returned"
          /\ result' = Err("NotAcknowledged", AtAddress(xfer.address))
          /\ Commands(busLog') = Commands(busLog)
      ]_vars

\* C12: a send whose every status read showed an acknowledgement and neither bus
\* error nor arbitration loss has written all its data bytes, issued STOP and
\* returns Ok; a send that returns an error has read a status showing a fault.
C12_AckedSendIsOk ==
    (i2c_pc = "returned" /\ xfer.op = "send" /\ ~InvalidAddress(xfer.address)) =>
        LET reads == StatusReads(busLog) IN
        /\ (\A i \in DOMAIN reads : reads[i].val = 0) =>
              /\ result = Ok
              /\ Values(DataWrites(busLog)) = xfer.data
              /\ Len(Stops(busLog)) = 1
        /\ result.state = "err" => reads[Len(reads)].val # 0

\* the status check of the driver reports a fault for these register contents
Fault(b) == b.buserr \/ b.arblost \/ ~b.rxnack

\* STATUS as read when the byte was acknowledged and the bus is healthy
Acknowledged == [buserr |-> FALSE, arblost |-> FALSE, rxnack |-> FALSE]

\* STATUS as read when the driver's check passes
Passing == [buserr |-> FALSE, arblost |-> FALSE, rxnack |-> TRUE]

\* the register accesses of one phase of a transfer: the command, then the clear
\* of INTFLAG.MB and the read of STATUS
IsPhase(log, k, reg, op, val) ==
    /\ log[3 * k + 1] = [reg |-> reg, op |-> op, val |-> val]
    /\ log[3 * k + 2] = [reg |-> "INTFLAG", op |-> "clear_mb", val |-> 0]
    /\ log[3 * k + 3].reg = "STATUS" /\ log[3 * k + 3].op = "read"

\* C13: a send to a valid address during which the bus is healthy and every byte
\* is acknowledged makes exactly these register accesses: the address write
\* address<<1, the data writes in the order given, one STOP command, each followed
\* by one clear of the byte-complete flag and one status read, and nothing else.
C13_SendSequence ==
    (/\ i2c_pc = "returned" /\ xfer.op = "send" /\ ~InvalidAddress(xfer.address)
     /\ \A i \in DOMAIN StatusReads(busLog) :
            StatusReads(busLog)[i].val = StatusValue(Acknowledged)) =>
        LET n == Len(xfer.data) IN
        /\ Len(busLog) = 3 * (n + 2)
        /\ IsPhase(busLog, 0, "ADDR", "write", 2 * xfer.address)
        /\ \A k \in 1..n : IsPhase(busLog, k, "DATA", "write", xfer.data[k])
        /\ IsPhase(busLog, n + 1, "CTRLB", "cmd", CMD_STOP)

\* C14: when a status check of send reports a fault, send returns there and then
\* with that phase's error: no register is written after the check (no further
\* data byte, no repeated phase, no STOP), and no earlier check had reported a fault.
C14_ReturnAtFirstFailure ==
    [][(AtCheck /\ xfer.op = "send" /\ Fault(bus)) =>
          /\ i2c_pc' = "returned"
          /\ result'.state = "err"
          /\ result'.kind = (IF bus.buserr THEN "BusError"
                             ELSE IF bus.arblost THEN "ArbitrationLost"
                             ELSE "NotAcknowledged")
          /\ result'.byte_info.tag = (IF xfer.phase = "address" THEN "Address"
                                      ELSE IF xfer.phase = "data" THEN "Data" ELSE "StopBit")
          /\ Commands(busLog') = Commands(busLog)
          /\ \A i \in DOMAIN StatusReads(busLog) : StatusReads(busLog)[i].val = StatusValue(Passing)
      ]_vars

C14_Witness ==
    /\ i2c_pc = "returned" /\ xfer.op = "send"
    /\ result.kind = "ArbitrationLost"
    /\ result.byte_info = AtData(0, 165)
    /\ xfer.data = <<165, 0>>
    /\ Len(DataWrites(busLog)) = 1
    /\ Stops(busLog) = <<>>

\* the phases of a transfer follow none -> address -> data ... -> stop -> none
PhaseOrder ==
    xfer'.phase # xfer.phase =>
        \/ xfer.phase = "none" /\ xfer'.phase = "address" /\ i2c_pc = "idle"
        \/ xfer.phase = "address" /\ xfer'.phase \in {"data", "stop"}
        \/ xfer.phase = "data" /\ xfer'.phase = "stop"
        \/ xfer'.phase = "none" /\ i2c_pc = "returned" /\ i2c_pc' = "idle"

\* C15 as stated: the phases follow that order, and a status check that reports a
\* fault is followed by a STOP command before the error is returned.
C15_StopOnFailure ==
    [][/\ PhaseOrder
       /\ (AtCheck /\ Fault(bus)) => Len(Stops(busLog')) > Len(Stops(busLog))
      ]_vars

\* C15 as amended: the phases follow that order; a status check that reports a
\* fault makes send or receive return the error at once without any STOP command;
\* a STOP command is issued only when the check before it reported no fault.
C15_NoStopOnFailure ==
    [][/\ PhaseOrder
       /\ (AtCheck /\ Fault(bus)) =>
             /\ i2c_pc' = "returned"
             /\ result'.state = "err"
             /\ Stops(busLog') = Stops(busLog)
       /\ Len(Stops(busLog')) > Len(Stops(busLog)) =>
             /\ AtCheck /\ ~Fault(bus)
             /\ xfer'.phase = "stop"
             /\ Len(Stops(busLog')) = 1
      ]_vars

C15_Witness ==
    /\ i2c_pc = "returned" /\ xfer.op = "receive"
    /\ result.state = "err" /\ result.byte_info.tag = "Data"
    /\ Stops(busLog) = <<>>

\* the phase a register log ends in: the one started by its last command, where a
\* receive enters its first data phase by reading DATA
ActivePhase(log, op) ==
    LET cmds == Commands(log)
        c == cmds[Len(cmds)]
    IN IF c.reg = "CTRLB" /\ c.val = CMD_STOP THEN "stop"
       ELSE IF c.reg = "ADDR" /\ ~(op = "receive" /\ DataReads(log) # <<>>) THEN "address"
       ELSE "data"

\* the data bytes transferred so far
Transferred(log, op) == IF op = "send" THEN DataWrites(log) ELSE DataReads(log)

C17_BusErrorFirst ==
    [][AtCheck =>
          /\ bus.buserr =>
                /\ result'.state = "err" /\ result'.kind = "BusError"
                /\ ~bus'.buserr /\ ~bus'.arblost
          /\ (~bus.buserr /\ bus.arblost) =>
                /\ result'.state = "err" /\ result'.kind = "ArbitrationLost"
                /\ ~bus'.arblost
          /\ result'.state = "err" => i2c_pc' = "returned"
      ]_vars

C17_Witness ==
    /\ i2c_pc = "returned"
    /\ result.kind = "BusError"
    /\ LET reads == StatusReads(busLog) IN reads[Len(reads)].val \in {3, 7}
    /\ ~bus.buserr /\ ~bus.arblost

\* CTRLB.ACKACT is the acknowledge action of the controller after a received byte:
\* 0 sends ACK, 1 sends NACK
SendsAck(e) == e.reg = "CTRLB" /\ e.op = "ackact_clear_cmd"
SendsNack(e) == e.reg = "CTRLB" /\ e.op = "ackact_set_cmd"

\* C18: receive writes (address<<1)|1 as the address; the bytes given to the
\* handler are the bytes read, in order; every request for another byte goes out
\* with ACK, the STOP goes out with NACK, there is at most one STOP and it is the
\* last command.
C18_ReceiveProtocol ==
    (xfer.op = "receive" /\ busLog # <<>>) =>
        LET cmds == Commands(busLog) IN
        /\ cmds[1] = [reg |-> "ADDR", op |-> "write", val |-> 2 * xfer.address + 1]
        /\ \A i \in DOMAIN cmds :
              /\ (cmds[i].reg = "CTRLB" /\ cmds[i].val = CMD_BYTE_READ) => SendsAck(cmds[i])
              /\ (cmds[i].reg = "CTRLB" /\ cmds[i].val = CMD_STOP) =>
                    (SendsNack(cmds[i]) /\ i = Len(cmds))
        /\ Len(xfer.handled) <= Len(DataReads(busLog))
        /\ xfer.handled = SubSeq(Values(DataReads(busLog)), 1, Len(xfer.handled))

----------------------------------------------------------------------------
(* Termination of the I2C driver, checked under SpecI2cLive *)

InFlight == i2c_pc \in {"sync", "wait_mb"}

ErrorKinds == {"InvalidAddress", "BusError", "ArbitrationLost", "NotAcknowledged"}

\* C29: a transfer that has started leaves its waits only towards its return, with
\* the arguments it was called with (nothing takes it back to idle on the way), and
\* when the hardware ends every synchronisation and every bus operation, it
\* returns Ok or an error of one of the kinds of I2cErrorKind.
C29_TransferTerminates ==
    /\ [][InFlight =>
             /\ i2c_pc' \in {"sync", "wait_mb", "returned"}
             /\ xfer'.op = xfer.op /\ xfer'.address = xfer.address /\ xfer'.data = xfer.data
         ]_vars
    /\ InFlight ~> (/\ i2c_pc = "returned"
                    /\ \/ result = Ok
                       \/ result.state = "err" /\ result.kind \in ErrorKinds)

C29_Witness ==
    /\ i2c_pc = "returned"
    /\ xfer.op = "receive"
    /\ result = Ok
    /\ Len(xfer.handled) = MaxRead
    /\ Len(Stops(busLog)) = 1

----------------------------------------------------------------------------
(* Properties of the foreground and of its interplay with the handler, checked
   under SpecMain *)

ForegroundStep == main_pc' # main_pc

\* C21: a handler invocation sets UPDATE_TIME if it is a second boundary and leaves
\* it alone otherwise; the flag tells whether, not how many, boundaries are
\* unconsumed; a clear that consumes k >= 1 boundaries is followed by one refresh,
\* which, when no further boundary came in between, shows the SECOND and
\* DCF77_DATA of the last of them.
C21_CoalescedNotification ==
    [][/\ ticks' # ticks =>
             /\ SECOND' # SECOND => UPDATE_TIME'
             /\ SECOND' = SECOND => UPDATE_TIME' = UPDATE_TIME
       /\ UPDATE_TIME' = (pending' > 0)
       /\ (main_pc = "clear" /\ ForegroundStep) =>
             /\ pending >= 1
             /\ cycle' = [k |-> pending, refreshes |-> 0]
       /\ (main_pc = "render" /\ ForegroundStep) =>
             /\ cycle'.refreshes = 1
             /\ pending = 0 => time_info' = RenderTime(SECOND, DCF77_DATA)
       /\ (main_pc = "send" /\ ForegroundStep) => (main_pc' = "wait" /\ cycle.refreshes = 1)
       /\ cycle'.refreshes <= 1
      ]_vars

C21_Witness ==
    /\ main_pc = "wait"
    /\ cycle = [k |-> 2, refreshes |-> 1]
    /\ pending = 0
    /\ SECOND = 1
    /\ time_info = RenderTime(1, new)

\* C25: when the foreground has read SECOND and DCF77_DATA, at most one second
\* boundary lies between the first and the last of its reads; with none, it holds
\* the present SECOND and DCF77_DATA; with one, it holds the SECOND of before that
\* boundary and, field by field, DCF77_DATA of before or after it; time_info is
\* composed of just these values.
C25_AtMostOneBoundaryApart ==
    [][/\ (main_pc = "read_rest" /\ ForegroundStep) =>
             /\ sinceRead <= 1
             /\ sinceRead = 0 => (main_second = SECOND /\ main_data' = DCF77_DATA)
             /\ sinceRead = 1 =>
                   /\ main_second = prev.second
                   /\ \A f \in FieldNames : main_data'[f] \in {prev.data[f], DCF77_DATA[f]}
       /\ (main_pc = "render" /\ ForegroundStep) =>
             time_info' = RenderTime(main_second, main_data)
      ]_vars

\* second 58 next to the minute that begins after it
C25_Witness ==
    /\ main_pc = "send"
    /\ time_info = RenderTime(58, increment_minute(new))
    /\ SECOND = 59
    /\ DCF77_DATA = increment_minute(new)

\* C26: a step of the foreground leaves COUNTER, SECOND, DCF77_DATA and MINUTE as
\* they are and changes UPDATE_TIME only from true to false; they change only in
\* handler invocations.
C26_ForegroundOnlyClears ==
    [][/\ ForegroundStep =>
             /\ UNCHANGED <<COUNTER, SECOND, DCF77_DATA, MINUTE>>
             /\ UPDATE_TIME' # UPDATE_TIME => (UPDATE_TIME /\ ~UPDATE_TIME')
       /\ <<COUNTER, SECOND, DCF77_DATA, MINUTE>>' # <<COUNTER, SECOND, DCF77_DATA, MINUTE>> =>
             ticks' = ticks + 1
       /\ (~UPDATE_TIME /\ UPDATE_TIME') => ticks' = ticks + 1
      ]_vars

C26_Witness ==
    /\ main_pc = "read_second"
    /\ ~UPDATE_TIME
    /\ cycle.k = 1
    /\ SECOND = 59
    /\ minutes = 1
    /\ MINUTE = to_bits(DCF77_DATA)

\* C27 as stated: every write to the period and duty cycle registers is made by
\* the handler.
C27_OnlyHandlerWrites == \A w \in pwmLog : w.ctx = "RTC"

\* C27 as amended: main writes the period and a duty cycle of 0 in its set-up,
\* before it enters its loop; no step of the loop writes either register; the
\* handler writes the duty cycle only.
C27_SetupThenHandler ==
    [][/\ pwmLog' \subseteq {[reg |-> "PER", ctx |-> "main"], [reg |-> "CC0", ctx |-> "main"],
                            [reg |-> "CC0", ctx |-> "RTC"]}
       /\ (ForegroundStep /\ main_pc \in LoopPcs) => UNCHANGED <<per, cc0, pwmLog>>
       /\ (ForegroundStep /\ <<per, pwmLog>>' # <<per, pwmLog>>) =>
             /\ main_pc = "setup" /\ main_pc' = "wait"
             /\ per' = CORE_CLOCK_SPEED_HZ \div FREQUENCY_HZ /\ cc0' = 0
       /\ ticks' # ticks => per' = per
       /\ main_pc' \in LoopPcs => per' = CORE_CLOCK_SPEED_HZ \div FREQUENCY_HZ
      ]_vars

C27_Witness ==
    /\ main_pc = "send"
    /\ pwmLog = {[reg |-> "PER", ctx |-> "main"], [reg |-> "CC0", ctx |-> "main"],
                 [reg |-> "CC0", ctx |-> "RTC"]}
    /\ cc0 = LowPreset
    /\ per = 400
    /\ SECOND = 3

\* C30: the panic state is entered from the two take() calls only, with no
\* initialisation step performed, no register of the carrier written and no
\* handler invocation made; it is never left, none of these happens in it, and
\* the LED is set high and low in turn for ever.
C30_PanicAtBoot ==
    /\ [][/\ (main_pc' \in PanicPcs /\ main_pc \notin PanicPcs) =>
                (main_pc \in {"start", "take_peripherals"} /\ main_pc' = "panic_setup")
          /\ main_pc \in PanicPcs => main_pc' \in PanicPcs
          /\ main_pc' \in PanicPcs =>
                /\ done' = <<>> /\ pwmLog' = {} /\ per' = 0
                /\ ticks' = 0 /\ ~UPDATE_TIME'
          /\ (main_pc = "panic_high" /\ ForegroundStep) => (led' /\ main_pc' = "panic_low")
          /\ (main_pc = "panic_low" /\ ForegroundStep) => (~led' /\ main_pc' = "panic_high")
         ]_vars
    /\ [](main_pc \in PanicPcs => ([]<>led /\ []<>~led))

C30_Witness ==
    /\ main_pc = "panic_low"
    /\ led
    /\ done = <<>>
    /\ ticks = 0

\* the start of main with a foreground that keeps making progress: main is one
\* sequential thread that the handler interrupts and returns to, so whenever its
\* next step is possible it is taken
SpecMainLive ==
    /\ Init /\ [][NextBoot]_vars
    /\ WF_vars(Foreground)

----------------------------------------------------------------------------
(* The address locator, checked under SpecI2c *)

\* C31: an error found by the status check of the address phase is located at
\* Address(b), where b is the byte written to ADDR for the bus: address<<1 in a
\* send, (address<<1)|1 in a receive.
C31_AddressLocatorOnBus ==
    [][(AtCheck /\ xfer.phase = "address" /\ result'.state = "err") =>
          /\ busLog[1] = [reg |-> "ADDR", op |-> "write",
                          val |-> IF xfer.op = "send" THEN AddressAndWrite(xfer.address)
                                  ELSE AddressAndRead(xfer.address)]
          /\ result'.byte_info = AtAddress(busLog[1].val)
      ]_vars

----------------------------------------------------------------------------
(* A minute of presets, checked under Spec *)

\* v >> n
ShiftedBy(v, n) == { b - n : b \in { x \in v : x >= n } }

\* the duty cycle writes of the shifts in the recorded history, oldest first
ShiftWrites(h) == SelectSeq(h, LAMBDA e : e.kind = "shift")

\* C32: from one re-encode to the next the TimeCode cell does not change; after
\* the boundary entering second s < 59 the stored frame is encode(TimeCode)
\* shifted right by s+1, at second 59 it is encode(TimeCode); and the 59 presets
\* applied on entering seconds 0..58 before the next re-encode are, in that
\* order, the presets of bits 0..58 of that frame.
C32_MinuteOfPresets ==
    [][ticks' # ticks =>
          /\ (DCF77_DATA' # DCF77_DATA) => (SECOND = 58 /\ SECOND' = 59)
          /\ (minutes' >= 1 /\ SECOND' = 59) => MINUTE' = to_bits(DCF77_DATA')
          /\ (minutes' >= 1 /\ SECOND' # 59) =>
                MINUTE' = ShiftedBy(to_bits(DCF77_DATA'), SECOND' + 1)
          /\ (minutes >= 1 /\ SECOND = 58 /\ SECOND' = 59) =>
                LET w == ShiftWrites(hist') IN
                /\ Len(w) = 59
                /\ \A s \in 0..58 :
                      w[s + 1].writes =
                         << IF s \in to_bits(DCF77_DATA) THEN HighPreset ELSE LowPreset >>
      ]_vars

C32_Witness ==
    /\ minutes = 2
    /\ SECOND = 59
    /\ Len(ShiftWrites(hist)) = 59
    /\ \E s \in 21..58 : ShiftWrites(hist)[s + 1].writes = <<HighPreset>>
    /\ MINUTE = to_bits(DCF77_DATA)

\* C33: in every minute from boot on, the first included, the duty cycle written
\* on entering second 0 is the low preset and the one written on entering second
\* 20 is the high preset.
C33_MarkersEveryMinute ==
    [][(ticks' # ticks /\ SECOND' # SECOND) =>
          /\ SECOND' = 0 => cc0' = LowPreset
          /\ SECOND' = 20 => cc0' = HighPreset
      ]_vars

\* C34: between invocations of the handler the duty cycle is 0, period/44 = 9 or
\* period/2 = 200, where period = 31 000 000 / 77 500 = 400; it does not exceed
\* the period, and it is 0 exactly when SECOND is 59.
C34_DutyValues ==
    /\ period = 400
    /\ cc0 \in {0, period \div 44, period \div 2}
    /\ {0, period \div 44, period \div 2} = {0, 9, 200}
    /\ cc0 <= period
    /\ (cc0 = 0) <=> (SECOND = 59)

C34_Witness ==
    /\ cc0 = 200
    /\ SECOND = 20
    /\ minutes = 1
    /\ hist # <<>> /\ hist[Len(hist)].kind = "shift"

\* the time of day, in seconds, that the cells read by the foreground hold
ExposedTime == MinuteOfDay(DCF77_DATA) * 60 + SECOND

\* C35: every second boundary advances the time held by the TimeCode cell and the
\* second counter by one second modulo 24 hours, and the hour and minute digits
\* change at the boundary at which the second goes from 59 to 0 and at no other.
C35_OneSecondPerBoundary ==
    [][(ticks' # ticks /\ SECOND' # SECOND) =>
          /\ ExposedTime' = (ExposedTime + 1) % (MinutesPerDay * 60)
          /\ (HourMinute(DCF77_DATA') # HourMinute(DCF77_DATA)) <=> (SECOND = 59 /\ SECOND' = 0)
      ]_vars

----------------------------------------------------------------------------
(* No lost update, checked under SpecMainLive *)

\* the second shown by the last refresh
ShownSecond == 10 * time_info[11] + time_info[12]

\* the seconds entered while the handler is followed (the counter starts at 59)
EnteredSeconds == 0 .. (BootSeconds - 1)

\* C36: with a foreground that keeps making progress, every second boundary is
\* followed by a refresh made from reads that came after it (the refresh shows
\* the second entered at that boundary or a later one); a boundary that falls
\* between the clearing of the flag and the end of the refresh leaves the flag
\* set until the foreground clears it again, which it does.
C36_NoLostUpdate ==
    /\ \A s \in EnteredSeconds :
          (ticks > 0 /\ SECOND = s) ~>
             (time_info # <<>> /\ ShownSecond \in s .. (BootSeconds - 1))
    /\ [][/\ (ticks' # ticks /\ SECOND' # SECOND) => UPDATE_TIME'
          /\ (UPDATE_TIME /\ ~UPDATE_TIME') => (main_pc = "clear" /\ main_pc' = "read_second")
         ]_vars
    /\ (UPDATE_TIME /\ main_pc \in {"read_second", "read_data", "read_rest", "render", "send"})
          ~> (main_pc = "clear")
    /\ (main_pc = "clear") ~> (main_pc = "send")

C36_Witness ==
    /\ main_pc = "send"
    /\ cycle.k = 2
    /\ pending = 1
    /\ SECOND = 2
    /\ ShownSecond = 1

----------------------------------------------------------------------------
(* Errors of the display output, checked under SpecDisplay *)

\* C37: transmit_byte transmits the upper nibble, then the lower; it returns an
\* error whenever either transmission failed and Ok only when both succeeded.
C37_NibbleErrorsSurfaced ==
    disp.pc = "returned" =>
       /\ (disp.upper_error.state = "err" \/ disp.lower_error.state = "err")
             => disp.ret.state = "err"
       /\ disp.ret = Ok => (disp.upper_error = Ok /\ disp.lower_error = Ok)
       /\ disp.sent # <<>>
       /\ disp.sent[1] = NibbleBytes(UpperNibble(disp.byte), disp.rs, disp.backlight)[1]
       /\ disp.sent[Len(disp.sent) - disp.sends] \in
             { NibbleBytes(LowerNibble(disp.byte), disp.rs, disp.backlight)[i] : i \in 1..3 }

----------------------------------------------------------------------------
(* The start of the tick source, checked under SpecBoot *)

\* the initialisation steps main has performed
StepsDone == { done[i] : i \in DOMAIN done }

\* C38: when main enters its loop it has set up the real-time counter and
\* unmasked its interrupt (rtc::setup_rtc and rtc::enable_interrupt), the two
\* steps without which the handler is never invoked, UPDATE_TIME is never set
\* and the wait at the head of the loop never ends.
C38_TickSourceStarted ==
    main_pc \in LoopPcs => {"setup_rtc", "enable_interrupt"} \subseteq StepsDone

----------------------------------------------------------------------------
(* Termination of the handler, checked under SpecTcc *)

\* C28: every invocation of the handler returns, whatever SYNCBUSY.CC0 does after
\* the write of the duty cycle.
C28_HandlerReturns == (rtc_pc # "idle") ~> (rtc_pc = "idle")

====
